---- MODULE Spec2Model ----
(***************************************************************************)
(* The ffmpeg workers of src/index.ts and src/unnamed: boundary            *)
(* resolution, captions, progress reports and temporary files.             *)
(*                                                                         *)
(* src/index.ts holds three workers, each a complete Fastify program with  *)
(* one POST /process-video handler:                                        *)
(*   "safe"  : lines   1-308, safe-point cut (silence between words)       *)
(*   "loose" : lines 310-487, loose cut (fixed padding)                    *)
(*   "snap"  : lines 488-757, exact word-snap                              *)
(*                                                                         *)
(* src/unnamed holds later versions of the program:                        *)
(*   "karaoke" : part_001, karaoke (ASS) captions, cut as received         *)
(*   "exact"   : part_002 lines 1-207, SRT captions, cut as received       *)
(*   "tracked" : part_002 lines 209-end (and part_004), karaoke captions   *)
(*               and progress reports to the backend                       *)
(*                                                                         *)
(* Times are integers in milliseconds: 0.05 s = 50, 0.10 s = 100, ...      *)
(* Every time the model draws is a multiple of 50 ms, so that the halves   *)
(* the code computes (silenceGap / 2) are exact integers and toFixed(3),   *)
(* which prints milliseconds, loses nothing.                               *)
(***************************************************************************)
EXTENDS Integers, Sequences, FiniteSets, TLC

\* ------------------------------------------------------------------------
\* Bounds of the model
\* ------------------------------------------------------------------------

\* longest word list of a request
MaxWords == 2

\* The instants a request or a word may name, in ms.  50 separates two
\* instants by exactly the 0.05 s tolerance, 100 and 200 by the pads, and
\* 1000 leaves a silence longer than twice the 0.3 s cap.
Times == {0, 50, 100, 200, 1000}

\* requested durations (d > 0), in ms
Durations == {50, 100, 700}

\* ------------------------------------------------------------------------
\* Data model
\* ------------------------------------------------------------------------

\* interface Word { start; end; word } -- the text plays no part in
\* boundary resolution and is left out
Word == {w \in [start : Times, end : Times] : w.start <= w.end}

\* JavaScript null for "Word | null"
NoWord == [start |-> -1, end |-> -1]

RECURSIVE SeqsUpTo(_, _)
SeqsUpTo(S, n) ==
  IF n = 0 THEN {<<>>}
  ELSE LET shorter == SeqsUpTo(S, n - 1)
       IN shorter \cup {Append(s, x) : s \in {t \in shorter : Len(t) = n - 1}, x \in S}

\* word lists as they arrive: any order, overlapping or not, empty or not
WordLists == SeqsUpTo(Word, MaxWords)

\* The word list of the example of the design document: window [10.0, 15.0]
\* with "hello" 9.8-10.3, "world" 10.3-10.9, ..., "end" 14.7-15.2
Example ==
  [startTime |-> 10000, duration |-> 5000,
   words |-> << [start |-> 9800,  end |-> 10300],
                [start |-> 10300, end |-> 10900],
                [start |-> 12000, end |-> 12600],
                [start |-> 14700, end |-> 15200] >>]

Max(a, b) == IF a >= b THEN a ELSE b

Min(a, b) == IF a <= b THEN a ELSE b

\* Array.prototype.find / findIndex over the outcomes of the callback:
\* the first position, in list order, whose flag is TRUE; 0 if there is
\* none (JavaScript's undefined / -1).
FirstTrue(flags) ==
  IF \E i \in DOMAIN flags : flags[i]
  THEN CHOOSE i \in DOMAIN flags : flags[i] /\ \A j \in 1..(i - 1) : ~flags[j]
  ELSE 0

\* [...words].sort((a, b) => a.start - b.start): stable, ascending by start
RECURSIVE InsertByStart(_, _)
InsertByStart(sorted, w) ==
  IF sorted = <<>> THEN <<w>>
  ELSE IF Head(sorted).start <= w.start
       THEN <<Head(sorted)>> \o InsertByStart(Tail(sorted), w)
       ELSE <<w>> \o sorted

RECURSIVE SortByStart(_)
SortByStart(words) ==
  IF words = <<>> THEN <<>>
  ELSE InsertByStart(SortByStart(SubSeq(words, 1, Len(words) - 1)), words[Len(words)])

\* ------------------------------------------------------------------------
\* Word-snap worker: boundary functions (src/index.ts 542-582)
\* ------------------------------------------------------------------------

\* findExactWordStart without the containing-word branch: always the next
\* word after the target
findExactWordStart_NextOnly(targetTime, words) ==
  IF words = <<>> THEN targetTime
  ELSE LET nextWord == FirstTrue([i \in DOMAIN words |-> words[i].start > targetTime])
       IN IF nextWord # 0 THEN words[nextWord].start ELSE targetTime

findExactWordStart(targetTime, words) ==
  IF words = <<>> THEN targetTime
  ELSE LET match    == FirstTrue([i \in DOMAIN words |->
                          targetTime >= words[i].start /\ targetTime <= words[i].end])
           nextWord == FirstTrue([i \in DOMAIN words |-> words[i].start > targetTime])
       IN IF match # 0 THEN words[match].start
          ELSE IF nextWord # 0 THEN words[nextWord].start
          ELSE targetTime

findExactWordEnd(targetTime, words) ==
  IF words = <<>> THEN targetTime
  ELSE LET match     == FirstTrue([i \in DOMAIN words |->
                           targetTime >= words[i].start /\ targetTime <= words[i].end])
           Before(w) == w.end < targetTime
           prevWords == SelectSeq(words, Before)
       IN IF match # 0 THEN words[match].end
          ELSE IF Len(prevWords) > 0 THEN prevWords[Len(prevWords)].end
          ELSE targetTime

\* ------------------------------------------------------------------------
\* Safe-point worker: boundary functions (src/index.ts 84-147)
\* ------------------------------------------------------------------------

tolerance == 50

\* findFirstWordAtOrAfter falling back to the last word of the list when no
\* word starts at or after the target
findFirstWordAtOrAfter_Fallback(targetTime, words) ==
  IF words = <<>> THEN NoWord
  ELSE LET sorted == SortByStart(words)
           found  == FirstTrue([i \in DOMAIN sorted |->
                        sorted[i].start >= targetTime - tolerance])
       IN IF found # 0 THEN sorted[found] ELSE sorted[Len(sorted)]

findFirstWordAtOrAfter(targetTime, words) ==
  IF words = <<>> THEN NoWord
  ELSE LET sorted == SortByStart(words)
           found  == FirstTrue([i \in DOMAIN sorted |->
                        sorted[i].start >= targetTime - tolerance])
       IN IF found # 0 THEN sorted[found] ELSE NoWord

findLastWordAtOrBefore(targetTime, words) ==
  IF words = <<>> THEN NoWord
  ELSE LET sorted == SortByStart(words)
           AtOrBefore(w) == w.end <= targetTime + tolerance
           candidates == SelectSeq(sorted, AtOrBefore)
       IN IF Len(candidates) > 0 THEN candidates[Len(candidates)] ELSE NoWord

\* idx is 1-based: the code's idx <= 0 (not found, or first) is idx <= 1
calculateSafeStartPoint(firstWord, words) ==
  LET sorted == SortByStart(words)
      idx == FirstTrue([i \in DOMAIN sorted |-> sorted[i].start = firstWord.start])
  IN IF idx <= 1 THEN Max(0, firstWord.start - 150)
     ELSE LET prevWord   == sorted[idx - 1]
              silenceGap == firstWord.start - prevWord.end
              midSilence == prevWord.end + (silenceGap \div 2)
              maxBuffer  == firstWord.start - 300
          IN Max(Max(midSilence, maxBuffer), 0)

\* idx is 1-based: the code's idx === -1 || idx >= length - 1 is
\* idx = 0 \/ idx >= Len
calculateSafeEndPoint(lastWord, words) ==
  LET sorted == SortByStart(words)
      idx == FirstTrue([i \in DOMAIN sorted |-> sorted[i].start = lastWord.start])
  IN IF idx = 0 \/ idx >= Len(sorted) THEN lastWord.end + 200
     ELSE LET nextWord   == sorted[idx + 1]
              silenceGap == nextWord.start - lastWord.end
              midSilence == lastWord.end + (silenceGap \div 2)
              maxBuffer  == lastWord.end + 300
          IN Min(midSilence, maxBuffer)

\* ------------------------------------------------------------------------
\* Caption file (SRT) and engine arguments
\* ------------------------------------------------------------------------

\* formatTimeSRT: new Date(0).setMilliseconds(seconds * 1000), then the
\* "HH:MM:SS.mmm" part of the ISO string: the hour wraps at 24.
formatTimeSRT(ms) ==
  << (ms \div 3600000) % 24, (ms \div 60000) % 60, (ms \div 1000) % 60, ms % 1000 >>

\* One numbered block per word that is left with a positive length once
\* both ends are floored at 0; the number is the word's index + 1.
RECURSIVE srtBlocks(_, _, _)
srtBlocks(words, origin, index) ==
  IF index > Len(words) THEN <<>>
  ELSE LET w        == words[index]
           relStart == Max(0, w.start - origin)
           relEnd   == Max(0, w.end - origin)
           rest     == srtBlocks(words, origin, index + 1)
       IN IF relEnd <= relStart THEN rest
          ELSE << [index |-> index, from |-> formatTimeSRT(relStart),
                   to |-> formatTimeSRT(relEnd)] >> \o rest

generateSubtitleFileSafe(words, videoStartTime) == srtBlocks(words, videoStartTime, 1)

generateSubtitleFileLoose(words, globalStartTime) == srtBlocks(words, globalStartTime, 1)

generateSubtitleFileSnap(words, globalStartTime) == srtBlocks(words, globalStartTime, 1)

\* no caption file / no engine process
NoSubtitle == << "none" >>

NoEngine == [ss |-> -1, t |-> -1, fadeIn |-> -1, fadeOutStart |-> -1, fadeOut |-> -1,
             subtitles |-> FALSE]

\* runFFmpeg of the three workers, up to spawn(): the arguments the engine
\* is started with.  -ss and -t are printed with toFixed(3), i.e. in ms.
runFFmpegSafe(cutStart, cutEnd, hasSubtitle) ==
  LET duration     == cutEnd - cutStart
      fadeOutStart == Max(0, duration - 150)
  IN [ss |-> cutStart, t |-> duration, fadeIn |-> 100,
      fadeOutStart |-> fadeOutStart, fadeOut |-> 150, subtitles |-> hasSubtitle]

PAD_START == 100

PAD_END == 250

\* runFFmpegLoose adding the nominal start pad to the duration instead of
\* the pad that was applied after clamping at 0
runFFmpegLoose_NominalPad(reqStart, reqDuration, hasSubtitle) ==
  LET finalStart    == Max(0, reqStart - PAD_START)
      finalDuration == reqDuration + PAD_START + PAD_END
      fadeOutStart  == finalDuration - PAD_END
  IN [ss |-> finalStart, t |-> finalDuration, fadeIn |-> PAD_START,
      fadeOutStart |-> fadeOutStart, fadeOut |-> PAD_END, subtitles |-> hasSubtitle]

runFFmpegLoose(reqStart, reqDuration, hasSubtitle) ==
  LET finalStart    == Max(0, reqStart - PAD_START)
      finalDuration == reqDuration + (reqStart - finalStart) + PAD_END
      fadeOutStart  == finalDuration - PAD_END
  IN [ss |-> finalStart, t |-> finalDuration, fadeIn |-> PAD_START,
      fadeOutStart |-> fadeOutStart, fadeOut |-> PAD_END, subtitles |-> hasSubtitle]

\* runFFmpegSnap cutting at the snapped start itself, without the lead of
\* 0.10 s the caption origin allows for
runFFmpegSnap_NoLead(start, end, hasSubtitle) ==
  LET SAFE_START   == start
      SAFE_END     == end + 150
      duration     == SAFE_END - SAFE_START
      fadeOutStart == duration - 100
  IN [ss |-> SAFE_START, t |-> duration, fadeIn |-> 50,
      fadeOutStart |-> fadeOutStart, fadeOut |-> 100, subtitles |-> hasSubtitle]

runFFmpegSnap(start, end, hasSubtitle) ==
  LET SAFE_START   == Max(0, start - 100)
      SAFE_END     == end + 150
      duration     == SAFE_END - SAFE_START
      fadeOutStart == duration - 100
  IN [ss |-> SAFE_START, t |-> duration, fadeIn |-> 50,
      fadeOutStart |-> fadeOutStart, fadeOut |-> 100, subtitles |-> hasSubtitle]

\* ------------------------------------------------------------------------
\* Karaoke caption file (ASS) of src/unnamed/part_001
\* ------------------------------------------------------------------------

\* Word texts as the transcription delivers them, in lower case.
Texts == {"subscription", "international",
          "pneumonoultramicroscopicsilicovolcanoconiosis"}

\* String.prototype.length
length(word) ==
  CASE word \in {"subscription", "SUBSCRIPTION"} -> 12
    [] word \in {"international", "INTERNATIONAL"} -> 13
    [] word \in {"pneumonoultramicroscopicsilicovolcanoconiosis",
                 "PNEUMONOULTRAMICROSCOPICSILICOVOLCANOCONIOSIS"} -> 45

\* w.word.toUpperCase()
toUpperCase(word) ==
  CASE word = "subscription" -> "SUBSCRIPTION"
    [] word = "international" -> "INTERNATIONAL"
    [] word = "pneumonoultramicroscopicsilicovolcanoconiosis" ->
         "PNEUMONOULTRAMICROSCOPICSILICOVOLCANOCONIOSIS"

\* instants of the words of a karaoke request, in ms: 50 and 100 fall in
\* different tenths of a second, 1000 follows a pause longer than 0.5 s
KaraokeTimes == {0, 50, 100, 1000}

\* interface Word { start; end; word }
KaraokeWord ==
  {w \in [start : KaraokeTimes, end : KaraokeTimes, word : Texts] : w.start <= w.end}

KaraokeWordLists == SeqsUpTo(KaraokeWord, MaxWords)

\* formatASS: new Date(0).setMilliseconds(s * 1000), then 10 characters of
\* the ISO string from its 11th, "HH:MM:SS.d": the hour wraps at 24 and
\* only the first decimal of the second is kept.
formatASS(ms) ==
  << (ms \div 3600000) % 24, (ms \div 60000) % 60, (ms \div 1000) % 60,
     (ms % 1000) \div 100 >>

\* Math.round(x * 100) of a time x held in ms: halves round up
roundCentiseconds(ms) == (ms + 5) \div 10

\* The {\k<duration>}WORD tags of a group, one per word
RECURSIVE karaokeText(_)
karaokeText(group) ==
  IF group = <<>> THEN <<>>
  ELSE << [k |-> roundCentiseconds(Head(group).end - Head(group).start),
           word |-> toUpperCase(Head(group).word)] >> \o karaokeText(Tail(group))

\* flushGroup: the Dialogue lines added for the buffered group, none when
\* the buffer is empty
flushGroup(currentGroup, cutStartTime) ==
  IF Len(currentGroup) = 0 THEN <<>>
  ELSE LET firstWord    == currentGroup[1]
           lastWord     == currentGroup[Len(currentGroup)]
           startSeconds == Max(0, firstWord.start - cutStartTime)
           endSeconds   == Max(0, lastWord.end - cutStartTime)
       IN << [Start |-> formatASS(startSeconds), End |-> formatASS(endSeconds),
              Text |-> karaokeText(currentGroup)] >>

\* the budget of a line, in characters, and the pause that breaks a line
MaxLineChars == 25

BigGap == 500

\* the line test counting the budget without the space between two words
breaksLine_NoSpace(currentCharCount, word, isBigGap) ==
  currentCharCount + length(word) > MaxLineChars + 1 \/ isBigGap

\* (currentCharCount + w.word.length > 25) || isBigGap
breaksLine(currentCharCount, word, isBigGap) ==
  currentCharCount + length(word) > MaxLineChars \/ isBigGap

\* The for loop of generateSubtitleFile from index i (1-based) on, with the
\* buffer it has reached, then the final flushGroup().  prevWord is the
\* word before w in the list, skipped or not.
RECURSIVE karaokeLoop(_, _, _, _, _)
karaokeLoop(words, cutStartTime, i, currentGroup, currentCharCount) ==
  IF i > Len(words) THEN flushGroup(currentGroup, cutStartTime)
  ELSE LET w == words[i]
       IN IF w.end < cutStartTime
          THEN karaokeLoop(words, cutStartTime, i + 1, currentGroup, currentCharCount)
          ELSE LET isBigGap == i > 1 /\ w.start - words[i - 1].end > BigGap
                   flush    == breaksLine(currentCharCount, w.word, isBigGap)
                   group    == IF flush THEN <<>> ELSE currentGroup
                   count    == IF flush THEN 0 ELSE currentCharCount
               IN (IF flush THEN flushGroup(currentGroup, cutStartTime) ELSE <<>>)
                  \o karaokeLoop(words, cutStartTime, i + 1, Append(group, w),
                                 count + length(w.word) + 1)

\* generateSubtitleFile leaving out every word that starts before the cut
generateSubtitleFileKaraoke_SkipStarted(words, cutStartTime) ==
  LET Started(w) == w.start >= cutStartTime
  IN karaokeLoop(SelectSeq(words, Started), cutStartTime, 1, <<>>, 0)

\* generateSubtitleFile of the karaoke worker: the Dialogue lines written
generateSubtitleFileKaraoke(words, cutStartTime) ==
  karaokeLoop(words, cutStartTime, 1, <<>>, 0)

\* runFFmpeg of the karaoke worker, up to spawn()
runFFmpegKaraoke(startTime, endTime, hasSubtitle) ==
  LET duration     == endTime - startTime
      fadeOutStart == Max(0, duration - 150)
  IN [ss |-> startTime, t |-> duration, fadeIn |-> 80,
      fadeOutStart |-> fadeOutStart, fadeOut |-> 150, subtitles |-> hasSubtitle]

\* ------------------------------------------------------------------------
\* Caption file (SRT) of the exact-times worker of src/unnamed/part_002
\* ------------------------------------------------------------------------

\* formatTimeSRT computed with Math.floor: "HH:MM:SS,mmm", the hour does
\* not wrap
formatTimeSRTExact(ms) ==
  << ms \div 3600000, (ms % 3600000) \div 60000, (ms % 60000) \div 1000, ms % 1000 >>

\* One numbered block per word that neither starts nor ends before the
\* cut; the number is the word's index + 1.
RECURSIVE srtBlocksExact(_, _, _)
srtBlocksExact(words, cutStartTime, index) ==
  IF index > Len(words) THEN <<>>
  ELSE LET w        == words[index]
           relStart == w.start - cutStartTime
           relEnd   == w.end - cutStartTime
           rest     == srtBlocksExact(words, cutStartTime, index + 1)
       IN IF relStart < 0 \/ relEnd < 0 THEN rest
          ELSE << [index |-> index, from |-> formatTimeSRTExact(relStart),
                   to |-> formatTimeSRTExact(relEnd)] >> \o rest

generateSubtitleFileExact(words, cutStartTime) == srtBlocksExact(words, cutStartTime, 1)

\* runFFmpeg of the exact-times worker, up to spawn()
runFFmpegExact(startTime, endTime, hasSubtitle) ==
  LET duration     == endTime - startTime
      fadeOutStart == Max(0, duration - 100)
  IN [ss |-> startTime, t |-> duration, fadeIn |-> 50,
      fadeOutStart |-> fadeOutStart, fadeOut |-> 100, subtitles |-> hasSubtitle]

\* ------------------------------------------------------------------------
\* State
\* ------------------------------------------------------------------------

VARIABLES
  worker,    \* which of the programs is running
  pc,        \* where the handler of the current request stands
  body,      \* request.body of the current request
  locals,    \* the handler's constants once the boundaries are resolved
  subtitle,  \* content of the caption file, NoSubtitle while not written
  engine,    \* arguments of the spawned engine process, NoEngine if none
  files,     \* temporary files of the request present on disk
  status,    \* HTTP status of the response, 0 while there is none
  error,     \* which stage made the request fail
  notified   \* what notifyBackend has sent for the request, in order

vars == << worker, pc, body, locals, subtitle, engine, files, status, error, notified >>

Workers == {"safe", "loose", "snap"}

\* an optional field of the body that was not sent
Absent == -1

NoBody == [startTime |-> Absent, endTime |-> Absent, duration |-> Absent, words |-> <<>>]

NoLocals == [rawStart |-> Absent]

\* Request bodies the schema of each worker accepts.  Number() of a
\* numeric field is the field.  The safe-point worker takes endTime or, for
\* compatibility, duration; a missing or zero endTime is falsy there.
Bodies(w) ==
  IF w = "safe"
  THEN {[startTime |-> s, endTime |-> e, duration |-> Absent, words |-> ws] :
           s \in Times, e \in Times \ {0}, ws \in WordLists}
       \cup
       {[startTime |-> s, endTime |-> e, duration |-> d, words |-> ws] :
           s \in Times, e \in {Absent, 0}, d \in Durations, ws \in WordLists}
  ELSE {[startTime |-> s, endTime |-> Absent, duration |-> d, words |-> ws] :
           s \in Times, d \in Durations, ws \in WordLists}
       \cup
       {[startTime |-> Example.startTime, endTime |-> Absent,
         duration |-> Example.duration, words |-> Example.words]}

\* finally { try { unlink input; unlink output; unlink sub } catch {} }:
\* each file is removed if it exists, in that order; the first unlinkSync
\* that throws (failAt) ends the block and leaves the later files behind.
Cleanup(fs, failAt) ==
  IF failAt = "input" /\ "input" \in fs THEN fs
  ELSE IF failAt = "output" /\ "output" \in fs THEN fs \ {"input"}
  ELSE IF failAt = "sub" /\ "sub" \in fs THEN fs \ {"input", "output"}
  ELSE {}

UnlinkFailures == {"none", "input", "output", "sub"}

InitOf(ws) ==
  /\ worker \in ws
  /\ pc = "idle"
  /\ body = NoBody
  /\ locals = NoLocals
  /\ subtitle = NoSubtitle
  /\ engine = NoEngine
  /\ files = {}
  /\ status = 0
  /\ error = "none"
  /\ notified = << >>

Init == InitOf(Workers)

\* catch { reply.code(500) } finally { cleanup }: the response of a failed
\* request
Fail(kind, fs, failAt) ==
  /\ pc' = "responded"
  /\ status' = 500
  /\ error' = kind
  /\ files' = Cleanup(fs, failAt)
  /\ body' = NoBody
  /\ locals' = NoLocals
  /\ subtitle' = NoSubtitle
  /\ engine' = NoEngine
  /\ UNCHANGED << worker, notified >>

\* A request arrives: fresh executionId, hence fresh temporary paths, and
\* the download is started.
Receive ==
  /\ pc = "idle"
  /\ \E b \in Bodies(worker) : body' = b
  /\ pc' = "downloading"
  /\ files' = {}
  /\ status' = 0
  /\ error' = "none"
  /\ locals' = NoLocals
  /\ subtitle' = NoSubtitle
  /\ engine' = NoEngine
  /\ UNCHANGED << worker, notified >>

\* downloadFile rejects: fetch failed or answered !ok (no file), or the
\* pipeline broke after createWriteStream had created the file.
DownloadFails ==
  /\ pc = "downloading"
  /\ \E partial \in BOOLEAN, failAt \in UnlinkFailures :
       Fail("download", IF partial THEN {"input"} ELSE {}, failAt)

\* Word-snap handler from the end of the download to spawn()
SnapDownloaded ==
  /\ pc = "downloading"
  /\ worker = "snap"
  /\ LET words        == body.words
         rawStart     == body.startTime
         rawEnd       == rawStart + body.duration
         snappedStart == findExactWordStart(rawStart, words)
         snappedEnd   == findExactWordEnd(rawEnd, words)
         hasWords     == Len(words) > 0
         subOffset    == Max(0, snappedStart - 100)
     IN /\ locals' = [rawStart |-> rawStart, rawEnd |-> rawEnd,
                      snappedStart |-> snappedStart, snappedEnd |-> snappedEnd,
                      subOffset |-> IF hasWords THEN subOffset ELSE Absent]
        /\ subtitle' = IF hasWords THEN generateSubtitleFileSnap(words, subOffset)
                                   ELSE NoSubtitle
        /\ files' = {"input"} \cup (IF hasWords THEN {"sub"} ELSE {})
        /\ engine' = runFFmpegSnap(snappedStart, snappedEnd, hasWords)
  /\ pc' = "rendering"
  /\ UNCHANGED << worker, notified, body, status, error >>

\* Loose-cut handler from the end of the download to spawn()
LooseDownloaded ==
  /\ pc = "downloading"
  /\ worker = "loose"
  /\ LET words       == body.words
         numStart    == body.startTime
         numDuration == body.duration
         hasWords    == Len(words) > 0
         subOffset   == Max(0, numStart - PAD_START)
     IN /\ locals' = [rawStart |-> numStart, numStart |-> numStart,
                      numDuration |-> numDuration,
                      subOffset |-> IF hasWords THEN subOffset ELSE Absent]
        /\ subtitle' = IF hasWords THEN generateSubtitleFileLoose(words, subOffset)
                                   ELSE NoSubtitle
        /\ files' = {"input"} \cup (IF hasWords THEN {"sub"} ELSE {})
        /\ engine' = runFFmpegLoose(numStart, numDuration, hasWords)
  /\ pc' = "rendering"
  /\ UNCHANGED << worker, notified, body, status, error >>

\* Safe-point handler from the end of the download to spawn(), or to the
\* throw when an anchor word is missing
SafeDownloaded ==
  /\ pc = "downloading"
  /\ worker = "safe"
  /\ LET words     == body.words
         rawStart  == body.startTime
         rawEnd    == IF body.endTime # Absent /\ body.endTime # 0
                      THEN body.endTime ELSE rawStart + body.duration
         firstWord == findFirstWordAtOrAfter(rawStart, words)
         lastWord  == findLastWordAtOrBefore(rawEnd, words)
     IN IF firstWord = NoWord \/ lastWord = NoWord
        THEN \E failAt \in UnlinkFailures : Fail("align", {"input"}, failAt)
        ELSE LET safeStart  == calculateSafeStartPoint(firstWord, words)
                 safeEnd    == calculateSafeEndPoint(lastWord, words)
                 InCut(w)   == w.start >= firstWord.start /\ w.end <= lastWord.end
                 wordsInCut == SelectSeq(words, InCut)
                 hasWords   == Len(wordsInCut) > 0
             IN /\ locals' = [rawStart |-> rawStart, rawEnd |-> rawEnd,
                              firstWord |-> firstWord, lastWord |-> lastWord,
                              safeStart |-> safeStart, safeEnd |-> safeEnd,
                              subOffset |-> IF hasWords THEN safeStart ELSE Absent]
                /\ subtitle' = IF hasWords
                               THEN generateSubtitleFileSafe(wordsInCut, safeStart)
                               ELSE NoSubtitle
                /\ files' = {"input"} \cup (IF hasWords THEN {"sub"} ELSE {})
                /\ engine' = runFFmpegSafe(safeStart, safeEnd, hasWords)
                /\ pc' = "rendering"
                /\ UNCHANGED << worker, notified, body, status, error >>

\* ffmpeg 'close' with code 0: resolve(), the output is read and the
\* upload is started
FFmpegSucceeds ==
  /\ pc = "rendering"
  /\ pc' = "uploading"
  /\ files' = files \cup {"output"}
  /\ UNCHANGED << worker, notified, body, locals, subtitle, engine, status, error >>

\* ffmpeg 'close' with another code, or 'error': reject(); the engine may
\* have left a partial output behind
FFmpegFails ==
  /\ pc = "rendering"
  /\ \E wrote \in BOOLEAN, failAt \in UnlinkFailures :
       Fail("ffmpeg", files \cup (IF wrote THEN {"output"} ELSE {}), failAt)

\* the storage client answers: success returns {success: true, url}
UploadSucceeds ==
  /\ pc = "uploading"
  /\ \E failAt \in UnlinkFailures : files' = Cleanup(files, failAt)
  /\ pc' = "responded"
  /\ status' = 200
  /\ error' = "none"
  /\ body' = NoBody
  /\ locals' = NoLocals
  /\ subtitle' = NoSubtitle
  /\ engine' = NoEngine
  /\ UNCHANGED << worker, notified >>

UploadFails ==
  /\ pc = "uploading"
  /\ \E failAt \in UnlinkFailures : Fail("upload", files, failAt)

\* Fastify has sent the reply the handler returned; the worker waits for
\* the next request.
ReplySent ==
  /\ pc = "responded"
  /\ pc' = "idle"
  /\ files' = {}
  /\ status' = 0
  /\ error' = "none"
  /\ UNCHANGED << worker, notified, body, locals, subtitle, engine >>

Next ==
  \/ Receive
  \/ DownloadFails
  \/ SnapDownloaded
  \/ LooseDownloaded
  \/ SafeDownloaded
  \/ FFmpegSucceeds
  \/ FFmpegFails
  \/ UploadSucceeds
  \/ UploadFails
  \/ ReplySent

Spec == Init /\ [][Next]_vars

\* one worker at a time
NextSnap ==
  \/ Receive
  \/ DownloadFails
  \/ SnapDownloaded
  \/ FFmpegSucceeds
  \/ FFmpegFails
  \/ UploadSucceeds
  \/ UploadFails
  \/ ReplySent

SpecSnap == InitOf({"snap"}) /\ [][NextSnap]_vars

NextLoose ==
  \/ Receive
  \/ DownloadFails
  \/ LooseDownloaded
  \/ FFmpegSucceeds
  \/ FFmpegFails
  \/ UploadSucceeds
  \/ UploadFails
  \/ ReplySent

SpecLoose == InitOf({"loose"}) /\ [][NextLoose]_vars

NextSafe ==
  \/ Receive
  \/ DownloadFails
  \/ SafeDownloaded
  \/ FFmpegSucceeds
  \/ FFmpegFails
  \/ UploadSucceeds
  \/ UploadFails
  \/ ReplySent

SpecSafe == InitOf({"safe"}) /\ [][NextSafe]_vars

\* ------------------------------------------------------------------------
\* The karaoke worker of src/unnamed/part_001 and the exact-times worker of
\* src/unnamed/part_002: the cut is [startTime, endTime] as received
\* ------------------------------------------------------------------------

EachWorkers == {"karaoke", "exact"}

TempFiles == {"input", "output", "sub"}

\* finally { [input, output, sub].forEach(p => { try { unlink p } catch {} }) }:
\* every file is tried on its own; the files whose unlinkSync throws
\* (failing) stay.
CleanupEach(fs, failing) == fs \cap failing

\* the clip ends after the last word
KaraokeEndTimes == {1200}

\* Request bodies the schema of the two workers accepts
KaraokeBodies ==
  {[startTime |-> s, endTime |-> e, duration |-> Absent, words |-> ws] :
      s \in KaraokeTimes, e \in KaraokeEndTimes, ws \in KaraokeWordLists}

\* return of the handler through catch (500) or from the try block (200),
\* with the finally block run
RespondEach(code, kind, fs, failing) ==
  /\ pc' = "responded"
  /\ status' = code
  /\ error' = kind
  /\ files' = CleanupEach(fs, failing)
  /\ body' = NoBody
  /\ locals' = NoLocals
  /\ subtitle' = NoSubtitle
  /\ engine' = NoEngine
  /\ UNCHANGED << worker, notified >>

ReceiveEach ==
  /\ pc = "idle"
  /\ worker \in EachWorkers
  /\ \E b \in KaraokeBodies : body' = b
  /\ pc' = "downloading"
  /\ files' = {}
  /\ status' = 0
  /\ error' = "none"
  /\ locals' = NoLocals
  /\ subtitle' = NoSubtitle
  /\ engine' = NoEngine
  /\ UNCHANGED << worker, notified >>

DownloadFailsEach ==
  /\ pc = "downloading"
  /\ worker \in EachWorkers
  /\ \E partial \in BOOLEAN, failing \in SUBSET TempFiles :
       RespondEach(500, "download", IF partial THEN {"input"} ELSE {}, failing)

\* Karaoke handler from the end of the download to spawn()
KaraokeDownloaded ==
  /\ pc = "downloading"
  /\ worker = "karaoke"
  /\ LET words    == body.words
         hasWords == Len(words) > 0
     IN /\ locals' = [rawStart |-> body.startTime, rawEnd |-> body.endTime,
                      subOffset |-> IF hasWords THEN body.startTime ELSE Absent]
        /\ subtitle' = IF hasWords
                       THEN generateSubtitleFileKaraoke(words, body.startTime)
                       ELSE NoSubtitle
        /\ files' = {"input"} \cup (IF hasWords THEN {"sub"} ELSE {})
        /\ engine' = runFFmpegKaraoke(body.startTime, body.endTime, hasWords)
  /\ pc' = "rendering"
  /\ UNCHANGED << worker, notified, body, status, error >>

\* Exact-times handler from the end of the download to spawn()
ExactDownloaded ==
  /\ pc = "downloading"
  /\ worker = "exact"
  /\ LET words    == body.words
         hasWords == Len(words) > 0
     IN /\ locals' = [rawStart |-> body.startTime, rawEnd |-> body.endTime,
                      subOffset |-> IF hasWords THEN body.startTime ELSE Absent]
        /\ subtitle' = IF hasWords
                       THEN generateSubtitleFileExact(words, body.startTime)
                       ELSE NoSubtitle
        /\ files' = {"input"} \cup (IF hasWords THEN {"sub"} ELSE {})
        /\ engine' = runFFmpegExact(body.startTime, body.endTime, hasWords)
  /\ pc' = "rendering"
  /\ UNCHANGED << worker, notified, body, status, error >>

\* ffmpeg 'close' with code 0 and the output on disk
FFmpegSucceedsEach ==
  /\ pc = "rendering"
  /\ worker \in EachWorkers
  /\ pc' = "uploading"
  /\ files' = files \cup {"output"}
  /\ UNCHANGED << worker, notified, body, locals, subtitle, engine, status, error >>

\* ffmpeg 'close' with another code (the 300 s timeout of the karaoke
\* worker kills it), 'error', or code 0 without an output file to read
FFmpegFailsEach ==
  /\ pc = "rendering"
  /\ worker \in EachWorkers
  /\ \E kind \in {"ffmpeg", "output"}, wrote \in BOOLEAN, failing \in SUBSET TempFiles :
       /\ kind = "output" => ~wrote
       /\ RespondEach(500, kind, files \cup (IF wrote THEN {"output"} ELSE {}), failing)

UploadSucceedsEach ==
  /\ pc = "uploading"
  /\ worker \in EachWorkers
  /\ \E failing \in SUBSET TempFiles : RespondEach(200, "none", files, failing)

UploadFailsEach ==
  /\ pc = "uploading"
  /\ worker \in EachWorkers
  /\ \E failing \in SUBSET TempFiles : RespondEach(500, "upload", files, failing)

NextKaraoke ==
  \/ ReceiveEach
  \/ DownloadFailsEach
  \/ KaraokeDownloaded
  \/ FFmpegSucceedsEach
  \/ FFmpegFailsEach
  \/ UploadSucceedsEach
  \/ UploadFailsEach
  \/ ReplySent

SpecKaraoke == InitOf({"karaoke"}) /\ [][NextKaraoke]_vars

NextExact ==
  \/ ReceiveEach
  \/ DownloadFailsEach
  \/ ExactDownloaded
  \/ FFmpegSucceedsEach
  \/ FFmpegFailsEach
  \/ UploadSucceedsEach
  \/ UploadFailsEach
  \/ ReplySent

SpecExact == InitOf({"exact"}) /\ [][NextExact]_vars

\* ------------------------------------------------------------------------
\* The progress-reporting worker of src/unnamed/part_002 (lines 209-end;
\* src/unnamed/part_004 is the same program without the watermark)
\* ------------------------------------------------------------------------

\* most time=HH:MM:SS.ff markers in one stderr chunk
MaxMarkers == 2

\* most bytes a download delivers
MaxDownloaded == 160

\* The time=HH:MM:SS.ff markers the engine may print, as << HH, MM, SS, ff >>
Markers == { << 0, 0, 0, 0 >>, << 0, 0, 0, 60 >>, << 0, 0, 0, 70 >>,
             << 0, 0, 1, 30 >>, << 0, 1, 0, 0 >> }

\* a stderr chunk, reduced to the markers it holds, in order
Chunks == SeqsUpTo(Markers, MaxMarkers)

\* timeToSeconds: h * 3600 + m * 60 + s, here in ms
timeToSeconds(marker) ==
  marker[1] * 3600000 + marker[2] * 60000 + marker[3] * 1000 + marker[4] * 10

\* chunk.match(/time=(\d{2}:\d{2}:\d{2}\.\d{2})/), a regular expression
\* without the g flag: the first marker of the chunk, << >> for null
timeMatchOf(chunk) == IF chunk = <<>> THEN <<>> ELSE << chunk[1] >>

\* Percentages are held in hundredths of a percent; the durations and sizes
\* drawn make every quotient exact.
Percent == 100

\* (currentTime / duration) * 100 is NaN for 0 / 0; every comparison with
\* NaN is false
isNaN(currentTime, duration) == currentTime = 0 /\ duration = 0

\* the percentage of the stderr handler without the cap at 100
percentOf_Uncapped(currentTime, duration) ==
  IF duration = 0 THEN 100 * Percent
  ELSE (currentTime * 100 * Percent) \div duration

\* Math.min(100, (currentTime / duration) * 100): x / 0 is Infinity for
\* x > 0, and a negative duration gives a negative quotient
percentOf(currentTime, duration) ==
  IF duration = 0 THEN 100 * Percent
  ELSE Min(100 * Percent, (currentTime * 100 * Percent) \div duration)

\* the throttle of the stderr handler: percent - lastReport > 5
RenderThrottle == 5

\* a stderr handler reporting every advance of the percentage
advanced_Any(percent, lastReport) == percent - lastReport > 0

\* if (percent - lastReport > 5) of the stderr handler
advanced(percent, lastReport) == percent - lastReport > RenderThrottle * Percent

\* the throttle of downloadFile: percent - lastReport > 10
DownloadThrottle == 10

\* Math.floor(55 + (pct / 100) * 40)
renderProgress(pct) == (55 * 100 * Percent + pct * 40) \div (100 * Percent)

\* Math.floor(50 + (pct / 100) * 5)
downloadProgress(pct) == (50 * 100 * Percent + pct * 5) \div (100 * Percent)

\* a POST of notifyBackend: its payload and its rank of arrival at the
\* backend, 0 while it is in flight
Note(st, progress, message) ==
  [status |-> st, progress |-> progress, message |-> message, arrived |-> 0]

\* the clip of a request: startTime 1.0 and an endTime before, at or after it
TrackedBodies ==
  {[startTime |-> 1000, endTime |-> e, duration |-> Absent, words |-> ws] :
      e \in {0, 1000, 3000, 11000},
      ws \in {<<>>, << [start |-> 1000, end |-> 1200, word |-> "subscription"] >>}}

\* content-length of the response: Number(null) is 0, which is falsy
ContentLengths == {0, 100}

\* value.length of a chunk of the body
ChunkSizes == {40, 60}

\* return of the handler: the last notifyBackend calls of the path taken,
\* then the reply and the finally block
TrackedRespond(code, kind, fs, failing, notes) ==
  /\ pc' = "responded"
  /\ status' = code
  /\ error' = kind
  /\ files' = CleanupEach(fs, failing)
  /\ notified' = notified \o notes
  /\ body' = NoBody
  /\ locals' = NoLocals
  /\ subtitle' = NoSubtitle
  /\ engine' = NoEngine
  /\ UNCHANGED worker

\* catch: notifyBackend({status: 'error', progress: 0}), reply.code(500)
TrackedFail(kind, fs, failing, notes) ==
  TrackedRespond(500, kind, fs, failing, notes \o << Note("error", 0, "none") >>)

\* A request arrives: the backend is told the worker has started and the
\* download is requested
TrackedReceive ==
  /\ pc = "idle"
  /\ worker = "tracked"
  /\ \E b \in TrackedBodies : body' = b
  /\ pc' = "fetching"
  /\ notified' = << Note("rendering", 50, "Worker iniciado") >>
  /\ files' = {}
  /\ status' = 0
  /\ error' = "none"
  /\ locals' = NoLocals
  /\ subtitle' = NoSubtitle
  /\ engine' = NoEngine
  /\ UNCHANGED worker

\* fetch rejects or answers !ok
TrackedFetchFails ==
  /\ pc = "fetching"
  /\ worker = "tracked"
  /\ \E failing \in SUBSET TempFiles : TrackedFail("download", {}, failing, <<>>)

\* fetch answers ok: the write stream is created and the body is read
TrackedResponse ==
  /\ pc = "fetching"
  /\ worker = "tracked"
  /\ \E totalLength \in ContentLengths :
       locals' = [rawStart |-> body.startTime, totalLength |-> totalLength,
                  downloaded |-> 0, lastReport |-> 0]
  /\ files' = {"input"}
  /\ pc' = "downloading"
  /\ UNCHANGED << worker, notified, body, subtitle, engine, status, error >>

\* reader.read() delivers a chunk of the body
TrackedDownloadData ==
  /\ pc = "downloading"
  /\ worker = "tracked"
  /\ \E n \in ChunkSizes :
       LET downloaded == locals.downloaded + n
           percent    == (downloaded * 100 * Percent) \div locals.totalLength
           report     == /\ locals.totalLength # 0
                         /\ percent - locals.lastReport > DownloadThrottle * Percent
       IN /\ downloaded <= MaxDownloaded
          /\ locals' = [locals EXCEPT !.downloaded = downloaded,
                                      !.lastReport = IF report THEN percent ELSE @]
          /\ notified' = IF report
                         THEN Append(notified, Note("downloading", downloadProgress(percent), "none"))
                         ELSE notified
  /\ UNCHANGED << worker, pc, body, subtitle, engine, files, status, error >>

\* reader.read() rejects or the write stream fails
TrackedDownloadFails ==
  /\ pc = "downloading"
  /\ worker = "tracked"
  /\ \E failing \in SUBSET TempFiles : TrackedFail("download", files, failing, <<>>)

\* runFFmpeg of the progress-reporting worker, up to spawn()
runFFmpegTracked(startTime, endTime, hasSubtitle) ==
  LET duration     == endTime - startTime
      fadeOutStart == Max(0, duration - 150)
  IN [ss |-> startTime, t |-> duration, fadeIn |-> 80,
      fadeOutStart |-> fadeOutStart, fadeOut |-> 150, subtitles |-> hasSubtitle]

\* The body is read to its end: captions, then spawn() with lastReport = 0
TrackedDownloaded ==
  /\ pc = "downloading"
  /\ worker = "tracked"
  /\ LET words    == body.words
         hasWords == Len(words) > 0
     IN /\ locals' = [rawStart |-> body.startTime, rawEnd |-> body.endTime,
                      subOffset |-> IF hasWords THEN body.startTime ELSE Absent,
                      lastReport |-> 0, chunk |-> <<>>, timeMatch |-> <<>>]
        /\ subtitle' = IF hasWords
                       THEN generateSubtitleFileKaraoke(words, body.startTime)
                       ELSE NoSubtitle
        /\ files' = {"input"} \cup (IF hasWords THEN {"sub"} ELSE {})
        /\ engine' = runFFmpegTracked(body.startTime, body.endTime, hasWords)
  /\ pc' = "rendering"
  /\ UNCHANGED << worker, notified, body, status, error >>

\* the engine process of the request exists: the handler awaits it, or it
\* has outlived the handler after an 'error' event
engineAlive == pc = "rendering" \/ (pc = "responded" /\ engine # NoEngine)

\* the stderr handler if a chunk that gives no report cleared lastReport
TrackedStderrData_ResetsReport ==
  /\ engineAlive
  /\ worker = "tracked"
  /\ \E chunk \in Chunks :
       LET timeMatch   == timeMatchOf(chunk)
           duration    == engine.t
           currentTime == timeToSeconds(timeMatch[1])
           percent     == percentOf(currentTime, duration)
           report      == /\ timeMatch # <<>>
                          /\ ~isNaN(currentTime, duration)
                          /\ advanced(percent, locals.lastReport)
       IN /\ locals' = [locals EXCEPT !.chunk = chunk, !.timeMatch = timeMatch,
                                      !.lastReport = IF report THEN percent ELSE 0]
          /\ notified' = IF report
                         THEN Append(notified, Note("rendering", renderProgress(percent), "none"))
                         ELSE notified
  /\ UNCHANGED << worker, pc, body, subtitle, engine, files, status, error >>

\* ffmpeg.stderr 'data': the chunk is searched for a marker and progress is
\* reported when it has advanced by more than the throttle
TrackedStderrData ==
  /\ engineAlive
  /\ worker = "tracked"
  /\ \E chunk \in Chunks :
       LET timeMatch   == timeMatchOf(chunk)
           duration    == engine.t
           currentTime == timeToSeconds(timeMatch[1])
           percent     == percentOf(currentTime, duration)
           report      == /\ timeMatch # <<>>
                          /\ ~isNaN(currentTime, duration)
                          /\ advanced(percent, locals.lastReport)
       IN /\ locals' = [locals EXCEPT !.chunk = chunk, !.timeMatch = timeMatch,
                                      !.lastReport = IF report THEN percent ELSE @]
          /\ notified' = IF report
                         THEN Append(notified, Note("rendering", renderProgress(percent), "none"))
                         ELSE notified
  /\ UNCHANGED << worker, pc, body, subtitle, engine, files, status, error >>

\* ffmpeg 'close' with code 0: the backend is told the upload starts, the
\* output is read and sent
TrackedFFmpegSucceeds ==
  /\ pc = "rendering"
  /\ worker = "tracked"
  /\ pc' = "uploading"
  /\ files' = files \cup {"output"}
  /\ notified' = Append(notified, Note("uploading", 95, "none"))
  /\ UNCHANGED << worker, body, locals, subtitle, engine, status, error >>

\* ffmpeg 'close' with code 0 but no output file: readFileSync throws
TrackedOutputMissing ==
  /\ pc = "rendering"
  /\ worker = "tracked"
  /\ \E failing \in SUBSET TempFiles :
       TrackedFail("output", files, failing, << Note("uploading", 95, "none") >>)

\* a handler that goes on to the upload after the engine has failed
TrackedFFmpegFails_StillUploads ==
  /\ pc = "rendering"
  /\ worker = "tracked"
  /\ pc' = "uploading"
  /\ notified' = Append(notified, Note("uploading", 95, "none"))
  /\ UNCHANGED << worker, body, locals, subtitle, engine, files, status, error >>

\* ffmpeg 'close' with another code (the 300 s timeout kills it) or 'error'
TrackedFFmpegFails ==
  /\ pc = "rendering"
  /\ worker = "tracked"
  /\ \E wrote \in BOOLEAN, failing \in SUBSET TempFiles :
       TrackedFail("ffmpeg", files \cup (IF wrote THEN {"output"} ELSE {}), failing, <<>>)

\* 'error' without the end of the process (the kill signal of the 300 s
\* timeout could not be sent): reject(); catch and finally run, the process
\* and its stderr listener stay.  The unlinks of this path succeed; their
\* failures are followed in TrackedFFmpegFails.
TrackedFFmpegError ==
  /\ pc = "rendering"
  /\ worker = "tracked"
  /\ pc' = "responded"
  /\ status' = 500
  /\ error' = "ffmpeg"
  /\ files' = CleanupEach(files, {})
  /\ notified' = Append(notified, Note("error", 0, "none"))
  /\ body' = NoBody
  /\ subtitle' = NoSubtitle
  /\ UNCHANGED << worker, locals, engine >>

\* 'close' of a process that has outlived the handler: resolve() or reject()
\* of the settled promise do nothing
TrackedLateClose ==
  /\ pc = "responded"
  /\ worker = "tracked"
  /\ engine # NoEngine
  /\ engine' = NoEngine
  /\ locals' = NoLocals
  /\ UNCHANGED << worker, pc, body, subtitle, files, status, error, notified >>

TrackedUploadSucceeds ==
  /\ pc = "uploading"
  /\ worker = "tracked"
  /\ \E failing \in SUBSET TempFiles :
       TrackedRespond(200, "none", files, failing, << Note("completed", 100, "none") >>)

TrackedUploadFails ==
  /\ pc = "uploading"
  /\ worker = "tracked"
  /\ \E failing \in SUBSET TempFiles : TrackedFail("upload", files, failing, <<>>)

\* Fastify has sent the reply; a process that has outlived the handler is
\* not followed beyond it
TrackedReplySent ==
  /\ pc = "responded"
  /\ worker = "tracked"
  /\ pc' = "idle"
  /\ files' = {}
  /\ status' = 0
  /\ error' = "none"
  /\ locals' = NoLocals
  /\ engine' = NoEngine
  /\ UNCHANGED << worker, notified, body, subtitle >>

NextTracked ==
  \/ TrackedReceive
  \/ TrackedFetchFails
  \/ TrackedResponse
  \/ TrackedDownloadData
  \/ TrackedDownloadFails
  \/ TrackedDownloaded
  \/ TrackedStderrData
  \/ TrackedFFmpegSucceeds
  \/ TrackedOutputMissing
  \/ TrackedFFmpegFails
  \/ TrackedUploadSucceeds
  \/ TrackedUploadFails
  \/ TrackedReplySent

SpecTracked == InitOf({"tracked"}) /\ [][NextTracked]_vars

\* arrivals are followed for the first notifications of a request
MaxPosts == 2

\* the POSTs of the request that have reached the backend
arrivedPosts == {i \in DOMAIN notified : notified[i].arrived > 0}

\* fetch(...) of notifyBackend is not awaited: a POST in flight reaches the
\* backend at any later time, whatever has been sent since
PostArrives ==
  /\ worker = "tracked"
  /\ Len(notified) <= MaxPosts
  /\ \E i \in DOMAIN notified \ arrivedPosts :
       notified' = [notified EXCEPT ![i].arrived = Cardinality(arrivedPosts) + 1]
  /\ UNCHANGED << worker, pc, body, locals, subtitle, engine, files, status, error >>

\* The same worker and the network between it and the backend
NextDelivery ==
  \/ NextTracked
  \/ PostArrives

SpecDelivery == InitOf({"tracked"}) /\ [][NextDelivery]_vars

\* The same worker, with an engine process that can outlive the handler
NextLinger ==
  \/ NextTracked
  \/ TrackedFFmpegError
  \/ TrackedLateClose

SpecLinger == InitOf({"tracked"}) /\ [][NextLinger]_vars

\* ------------------------------------------------------------------------
\* The first worker, src/unnamed/part_000: /process-video and /extract-audio
\* with temporary paths named after the jobId.  Two requests are in flight
\* at once: here pc, body, locals, status and error hold one value per
\* request, and files is the content of os.tmpdir().
\* ------------------------------------------------------------------------

\* requests the event loop may be serving at the same time
Requests == {1, 2}

JobIds == {"a", "b"}

NoNativeBody == [route |-> "none", jobId |-> "none", startTime |-> Absent, duration |-> Absent]

\* Request bodies processSchema and extractAudioSchema accept
NativeBodies ==
  {[route |-> "process-video", jobId |-> j, startTime |-> s, duration |-> d] :
      j \in JobIds, s \in {0, 1000}, d \in {700}}
  \cup
  {[route |-> "extract-audio", jobId |-> j, startTime |-> Absent, duration |-> Absent] :
      j \in JobIds}

\* path.join(tempDir, `input_${jobId}.mp4`) / `input_audio_${jobId}.mp4`
inputPathOf(b) ==
  IF b.route = "process-video" THEN << "input_", b.jobId, ".mp4" >>
  ELSE << "input_audio_", b.jobId, ".mp4" >>

\* path.join(tempDir, `output_${jobId}.mp4`) / `audio_${jobId}.mp3`
outputPathOf(b) ==
  IF b.route = "process-video" THEN << "output_", b.jobId, ".mp4" >>
  ELSE << "audio_", b.jobId, ".mp3" >>

NoPath == << "none" >>

NoNativeLocals == [inputPath |-> NoPath, outputPath |-> NoPath, unlinkThrew |-> FALSE]

\* the first unlinkSync of the finally block that finds its file and throws
unlinkThrows(fs, inputPath, outputPath, failAt) ==
  \/ failAt = "input" /\ inputPath \in fs
  \/ failAt = "output" /\ outputPath \in fs

\* finally { try { unlink input; unlink output } catch {} } on the shared
\* directory
CleanupPair(fs, inputPath, outputPath, failAt) ==
  IF failAt = "input" /\ inputPath \in fs THEN fs
  ELSE IF failAt = "output" /\ outputPath \in fs THEN fs \ {inputPath}
  ELSE fs \ {inputPath, outputPath}

InitNative ==
  /\ worker = "native"
  /\ pc = [r \in Requests |-> "idle"]
  /\ body = [r \in Requests |-> NoNativeBody]
  /\ locals = [r \in Requests |-> NoNativeLocals]
  /\ status = [r \in Requests |-> 0]
  /\ error = [r \in Requests |-> "none"]
  /\ files = {}
  /\ subtitle = NoSubtitle
  /\ engine = NoEngine
  /\ notified = << >>

\* return of the handler of request r with the finally block run
NativeRespond(r, code, kind, failAt) ==
  /\ pc' = [pc EXCEPT ![r] = "responded"]
  /\ status' = [status EXCEPT ![r] = code]
  /\ error' = [error EXCEPT ![r] = kind]
  /\ files' = CleanupPair(files, locals[r].inputPath, locals[r].outputPath, failAt)
  /\ locals' = [locals EXCEPT ![r].unlinkThrew =
                  unlinkThrows(files, locals[r].inputPath, locals[r].outputPath, failAt)]
  /\ UNCHANGED << worker, body, subtitle, engine, notified >>

\* A request arrives on one of the two routes and its download is started
NativeReceive(r) ==
  /\ pc[r] = "idle"
  /\ \E b \in NativeBodies :
       /\ body' = [body EXCEPT ![r] = b]
       /\ locals' = [locals EXCEPT ![r] = [inputPath |-> inputPathOf(b),
                                           outputPath |-> outputPathOf(b),
                                           unlinkThrew |-> FALSE]]
  /\ pc' = [pc EXCEPT ![r] = "downloading"]
  /\ status' = [status EXCEPT ![r] = 0]
  /\ error' = [error EXCEPT ![r] = "none"]
  /\ UNCHANGED << worker, files, subtitle, engine, notified >>

\* downloadFile rejects
NativeDownloadFails(r) ==
  /\ pc[r] = "downloading"
  /\ \E failAt \in {"none", "input", "output"} : NativeRespond(r, 500, "download", failAt)

\* downloadFile resolves: the input is on disk; ffmpeg or ffprobe is spawned
NativeDownloaded(r) ==
  /\ pc[r] = "downloading"
  /\ files' = files \cup {locals[r].inputPath}
  /\ pc' = [pc EXCEPT ![r] = IF body[r].route = "process-video" THEN "rendering"
                             ELSE "probing"]
  /\ UNCHANGED << worker, body, locals, status, error, subtitle, engine, notified >>

\* hasAudioStream resolves true: extractAudio is started
NativeHasAudio(r) ==
  /\ pc[r] = "probing"
  /\ locals[r].inputPath \in files
  /\ pc' = [pc EXCEPT ![r] = "rendering"]
  /\ UNCHANGED << worker, body, locals, status, error, files, subtitle, engine, notified >>

\* the 400 reply if it were returned outside the try block, with no finally
NativeNoAudio_NoFinally(r) ==
  /\ pc[r] = "probing"
  /\ pc' = [pc EXCEPT ![r] = "responded"]
  /\ status' = [status EXCEPT ![r] = 400]
  /\ error' = [error EXCEPT ![r] = "noaudio"]
  /\ UNCHANGED << worker, body, locals, files, subtitle, engine, notified >>

\* hasAudioStream resolves false (no audio stream, unreadable input or
\* ffprobe failing): reply.code(400) and return from the try block
NativeNoAudio(r) ==
  /\ pc[r] = "probing"
  /\ \E failAt \in {"none", "input", "output"} : NativeRespond(r, 400, "noaudio", failAt)

\* ffmpeg 'close' with code 0: the output is read and the upload started
NativeFFmpegSucceeds(r) ==
  /\ pc[r] = "rendering"
  /\ locals[r].inputPath \in files
  /\ files' = files \cup {locals[r].outputPath}
  /\ pc' = [pc EXCEPT ![r] = "uploading"]
  /\ UNCHANGED << worker, body, locals, status, error, subtitle, engine, notified >>

\* ffmpeg 'close' with another code, or 'error'
NativeFFmpegFails(r) ==
  /\ pc[r] = "rendering"
  /\ \E failAt \in {"none", "input", "output"} : NativeRespond(r, 500, "ffmpeg", failAt)

NativeUploadSucceeds(r) ==
  /\ pc[r] = "uploading"
  /\ \E failAt \in {"none", "input", "output"} : NativeRespond(r, 200, "none", failAt)

NativeUploadFails(r) ==
  /\ pc[r] = "uploading"
  /\ \E failAt \in {"none", "input", "output"} : NativeRespond(r, 500, "upload", failAt)

\* Fastify has sent the reply of request r
NativeReplySent(r) ==
  /\ pc[r] = "responded"
  /\ pc' = [pc EXCEPT ![r] = "idle"]
  /\ body' = [body EXCEPT ![r] = NoNativeBody]
  /\ locals' = [locals EXCEPT ![r] = NoNativeLocals]
  /\ status' = [status EXCEPT ![r] = 0]
  /\ error' = [error EXCEPT ![r] = "none"]
  /\ UNCHANGED << worker, files, subtitle, engine, notified >>

NextNative ==
  \/ \E r \in Requests : NativeReceive(r)
  \/ \E r \in Requests : NativeDownloadFails(r)
  \/ \E r \in Requests : NativeDownloaded(r)
  \/ \E r \in Requests : NativeHasAudio(r)
  \/ \E r \in Requests : NativeNoAudio(r)
  \/ \E r \in Requests : NativeFFmpegSucceeds(r)
  \/ \E r \in Requests : NativeFFmpegFails(r)
  \/ \E r \in Requests : NativeUploadSucceeds(r)
  \/ \E r \in Requests : NativeUploadFails(r)
  \/ \E r \in Requests : NativeReplySent(r)

SpecNative == InitNative /\ [][NextNative]_vars

\* ------------------------------------------------------------------------
\* One engine run: the promise of runFFmpeg from spawn() to its settlement,
\* in every worker.  locals holds the child process and the promise.
\* ------------------------------------------------------------------------

\* longest time a run is followed, in seconds
MaxElapsed == 400

\* spawn(..., { timeout: 300000 }), in seconds
TimeoutBudget == 300

\* the clock advances by this much, in seconds
ClockStep == TimeoutBudget \div 3

EngineWorkers == {"safe", "loose", "snap", "karaoke", "exact", "tracked"}

\* the workers whose spawn() carries the timeout option
hasTimeout(w) == w \in {"karaoke", "tracked"}

\* the arguments of a run of 0.7 s from 0, without captions
EngineArgsOf(w) ==
  CASE w = "safe"    -> runFFmpegSafe(0, 700, FALSE)
    [] w = "loose"   -> runFFmpegLoose(0, 700, FALSE)
    [] w = "snap"    -> runFFmpegSnap(0, 700, FALSE)
    [] w = "karaoke" -> runFFmpegKaraoke(0, 700, FALSE)
    [] w = "exact"   -> runFFmpegExact(0, 700, FALSE)
    [] w = "tracked" -> runFFmpegTracked(0, 700, FALSE)

\* exit codes of the 'close' event: 0, an error code, null for a signal
ExitCodes == {"0", "1", "null"}

\* new Promise(...) around spawn(): the process runs, nothing has settled
InitEngine ==
  /\ worker \in EngineWorkers
  /\ pc = "rendering"
  /\ engine = EngineArgsOf(worker)
  /\ locals = [elapsed |-> 0, process |-> "running", code |-> "none",
               errorEvent |-> FALSE, outcome |-> "pending", settled |-> 0]
  /\ body = NoBody
  /\ subtitle = NoSubtitle
  /\ files = {"input"}
  /\ status = 0
  /\ error = "none"
  /\ notified = << >>

\* resolve() or reject() of the promise: only the first call has an effect
settle(l, outcome) ==
  IF l.outcome = "pending"
  THEN [l EXCEPT !.outcome = outcome, !.settled = @ + 1]
  ELSE l

\* Time passes.  A running process with the timeout option does not get
\* past the budget: its timer fires first.
EngineTick ==
  /\ pc = "rendering"
  /\ locals.elapsed + ClockStep <= MaxElapsed
  /\ (hasTimeout(worker) /\ locals.process = "running")
       => locals.elapsed + ClockStep <= TimeoutBudget
  /\ locals' = [locals EXCEPT !.elapsed = @ + ClockStep]
  /\ UNCHANGED << worker, pc, body, subtitle, engine, files, status, error, notified >>

\* the timer of the timeout option fires: the process gets the kill signal
EngineTimeout ==
  /\ pc = "rendering"
  /\ hasTimeout(worker)
  /\ locals.process = "running"
  /\ locals.elapsed >= TimeoutBudget
  /\ locals' = [locals EXCEPT !.process = "killed"]
  /\ UNCHANGED << worker, pc, body, subtitle, engine, files, status, error, notified >>

\* 'error': the process could not be spawned; reject(err)
EngineError ==
  /\ pc = "rendering"
  /\ locals.process = "running"
  /\ locals.elapsed = 0
  /\ ~locals.errorEvent
  /\ locals' = settle([locals EXCEPT !.process = "failed", !.errorEvent = TRUE], "rejected")
  /\ UNCHANGED << worker, pc, body, subtitle, engine, files, status, error, notified >>

\* 'close': the process has ended by itself (code 0 or not), by the kill
\* signal (code null) or after a failed spawn (an error code);
\* code === 0 ? resolve() : reject(...)
EngineClose ==
  /\ pc = "rendering"
  /\ locals.process \in {"running", "killed", "failed"}
  /\ \E code \in ExitCodes :
       /\ locals.process = "running" => code \in {"0", "1"}
       /\ locals.process = "killed" => code = "null"
       /\ locals.process = "failed" => code = "1"
       /\ locals' = settle([locals EXCEPT !.process = "closed", !.code = code],
                           IF code = "0" THEN "resolved" ELSE "rejected")
  /\ UNCHANGED << worker, pc, body, subtitle, engine, files, status, error, notified >>

NextEngine ==
  \/ EngineTick
  \/ EngineTimeout
  \/ EngineError
  \/ EngineClose

SpecEngine == InitEngine /\ [][NextEngine]_vars

\* ------------------------------------------------------------------------
\* Properties
\* ------------------------------------------------------------------------

\* the window the engine was started with: -ss, and -ss plus -t
cutStart == engine.ss

cutEnd == engine.ss + engine.t

Rendering(w) == worker = w /\ pc = "rendering"

Contains(w, t) == t >= w.start /\ t <= w.end

WordsOf(ws) == {ws[i] : i \in DOMAIN ws}

SetMin(S) == CHOOSE x \in S : \A y \in S : x <= y

SetMax(S) == CHOOSE x \in S : \A y \in S : x >= y

\* C1: in the word-snap worker every request with rawEnd > rawStart >= 0,
\* whatever the word list, starts the engine with a window that has
\* cutStart >= 0 and cutEnd > cutStart.
C1_SnapWindowValid ==
  (Rendering("snap") /\ locals.rawEnd > locals.rawStart /\ locals.rawStart >= 0)
    => (cutStart >= 0 /\ cutEnd > cutStart)

\* C2: in the word-snap and safe-point workers a degenerate window
\* (cutEnd <= cutStart) is rejected before the engine is started: no engine
\* process exists with a non-positive duration.
C2_DegenerateRejected ==
  (worker \in {"snap", "safe"} /\ engine # NoEngine) => engine.t > 0

\* C3: findExactWordStart(t, words) is the start of a word containing t if
\* there is one, else the smallest word start greater than t, else t.
C3_ExactWordStart ==
  Rendering("snap") =>
    LET t      == locals.rawStart
        ws     == WordsOf(body.words)
        holds  == {w \in ws : Contains(w, t)}
        later  == {w.start : w \in {v \in ws : v.start > t}}
    IN IF holds # {} THEN locals.snappedStart \in {w.start : w \in holds}
       ELSE IF later # {} THEN locals.snappedStart = SetMin(later)
       ELSE locals.snappedStart = t

\* C4: findExactWordEnd(t, words) is the end of a word containing t if
\* there is one, else the largest word end less than t, else t.
C4_ExactWordEnd ==
  Rendering("snap") =>
    LET t       == locals.rawEnd
        ws      == WordsOf(body.words)
        holds   == {w \in ws : Contains(w, t)}
        earlier == {w.end : w \in {v \in ws : v.end < t}}
    IN IF holds # {} THEN locals.snappedEnd \in {w.end : w \in holds}
       ELSE IF earlier # {} THEN locals.snappedEnd = SetMax(earlier)
       ELSE locals.snappedEnd = t

\* C5: for a non-empty word list the start resolved by exact word-snap
\* never lies strictly inside the interval of any word.
C5_StartNotInsideWord ==
  (Rendering("snap") /\ body.words # <<>>) =>
    ~ \E w \in WordsOf(body.words) :
        w.start < locals.snappedStart /\ locals.snappedStart < w.end

IsExample == body.startTime = Example.startTime /\ body.duration = Example.duration
             /\ body.words = Example.words

\* C6, as stated: the example window [10.0, 15.0] resolves to cut start
\* 10.3 - 0.10 = 10.2 and cut end 15.2 + 0.15 = 15.35.
C6_ExampleAsStated ==
  (Rendering("snap") /\ IsExample) => (cutStart = 10200 /\ cutEnd = 15350)

\* C6, amended: 10.0 lies inside "hello" (9.8-10.3), so the example window
\* resolves to cut start 9.8 - 0.10 = 9.7 and cut end 15.2 + 0.15 = 15.35.
C6_ExampleAmended ==
  (Rendering("snap") /\ IsExample) => (cutStart = 9700 /\ cutEnd = 15350)

C6_Witness == Rendering("snap") /\ IsExample /\ locals.snappedStart = 9800

\* the start the cut is anchored on: the requested start (loose cut) or the
\* start of the anchor word (word-snap, safe-point)
AnchorStart ==
  IF worker = "loose" THEN locals.numStart
  ELSE IF worker = "snap" THEN locals.snappedStart
  ELSE locals.firstWord.start

\* C7: in every worker the audio fade-in handed to the engine is no longer
\* than the start pad actually applied, anchor start minus cutStart.
C7_FadeInWithinPad ==
  pc = "rendering" => engine.fadeIn <= AnchorStart - cutStart

\* C8: in the loose-cut worker, for requested start s >= 0 and duration
\* d > 0, the resolved start is max(0, s - 0.10), the resolved end is
\* s + d + 0.25, and when s >= 0.10 the resolved duration is d + 0.35.
C8_LooseCutPadding ==
  Rendering("loose") =>
    LET s == body.startTime
        d == body.duration
    IN /\ cutStart = Max(0, s - 100)
       /\ cutEnd = s + d + 250
       /\ (s >= 100 => engine.t = d + 100 + 250)

C8_Witness ==
  Rendering("loose") /\ body.startTime = 200 /\ body.duration = 700 /\ engine.t = 1050

\* no word of the list lies inside the requested window
NoWordInWindow ==
  LET rawEnd == IF body.endTime # Absent /\ body.endTime # 0
                THEN body.endTime ELSE body.startTime + body.duration
  IN \A w \in WordsOf(body.words) : ~(w.start >= body.startTime /\ w.end <= rawEnd)

HasAnchors ==
  LET rawEnd == IF body.endTime # Absent /\ body.endTime # 0
                THEN body.endTime ELSE body.startTime + body.duration
  IN /\ \E w \in WordsOf(body.words) : w.start >= body.startTime - 50
     /\ \E w \in WordsOf(body.words) : w.end <= rawEnd + 50

C10_AnchorWordsKept ==
  Rendering("safe") =>
    /\ locals.safeStart <= locals.firstWord.start
    /\ locals.safeStart >= locals.firstWord.start - 300
    /\ locals.safeEnd >= locals.lastWord.end
    /\ locals.safeEnd <= locals.lastWord.end + 300


\* ------------------------------------------------------------------------
\* Karaoke captions
\* ------------------------------------------------------------------------

\* the karaoke worker has written a caption file for the running request
KaraokeWritten == worker = "karaoke" /\ pc = "rendering" /\ engine.subtitles

\* a Start or End of a Dialogue line read back, in tenths of a second
assTime(t) == ((t[1] * 60 + t[2]) * 60 + t[3]) * 10 + t[4]

\* C11: the karaoke caption file never holds a Dialogue line whose End is
\* not after its Start
C11_NoEmptyCue ==
  KaraokeWritten =>
    \A c \in DOMAIN subtitle : assTime(subtitle[c].End) > assTime(subtitle[c].Start)

\* the tagged words of all the Dialogue lines, in file order
RECURSIVE Rendered(_)
Rendered(cues) ==
  IF cues = <<>> THEN <<>> ELSE Head(cues).Text \o Rendered(Tail(cues))

\* the words of the request that do not end before the cut, in input order
KeptWords ==
  LET NotBefore(w) == w.end >= body.startTime
  IN SelectSeq(body.words, NotBefore)

\* C12: the words of the Dialogue lines are the words of the request that
\* end at or after cutStart, each once and in input order
C12_WordsRendered ==
  KaraokeWritten =>
    /\ Len(Rendered(subtitle)) = Len(KeptWords)
    /\ \A i \in DOMAIN KeptWords :
         /\ Rendered(subtitle)[i].word = toUpperCase(KeptWords[i].word)
         /\ Rendered(subtitle)[i].k = roundCentiseconds(KeptWords[i].end - KeptWords[i].start)

\* a word before the cut was skipped, one partly before it was kept, and
\* the buffer was flushed at the end
C12_Witness ==
  /\ KaraokeWritten
  /\ Len(body.words) = 2
  /\ body.words[1].end < body.startTime
  /\ body.words[2].start < body.startTime
  /\ Len(Rendered(subtitle)) = 1

\* length of the words of a Dialogue line joined by single spaces
RECURSIVE joinedLength(_)
joinedLength(text) ==
  IF text = <<>> THEN 0
  ELSE length(Head(text).word) + (IF Len(text) > 1 THEN 1 ELSE 0)
       + joinedLength(Tail(text))

\* C13 as stated: the text of every Dialogue line is at most 25 characters
C13_BudgetAsStated ==
  KaraokeWritten =>
    \A c \in DOMAIN subtitle : joinedLength(subtitle[c].Text) <= MaxLineChars

\* C13: the text of a Dialogue line is at most 25 characters, unless the
\* line is a single word that is longer than 25 characters by itself
C13_BudgetAmended ==
  KaraokeWritten =>
    \A c \in DOMAIN subtitle :
      \/ joinedLength(subtitle[c].Text) <= MaxLineChars
      \/ Len(subtitle[c].Text) = 1 /\ length(subtitle[c].Text[1].word) > MaxLineChars

\* two words without a pause between them that are broken into two lines
\* because together they would be one character over the budget
C13_Witness ==
  /\ KaraokeWritten
  /\ Len(body.words) = 2
  /\ body.words[2].start - body.words[1].end <= BigGap
  /\ Len(subtitle) = 2
  /\ joinedLength(subtitle[1].Text) + 1 + joinedLength(subtitle[2].Text) = MaxLineChars + 1

\* sum of the \k durations of a Dialogue line, in centiseconds
RECURSIVE sumK(_)
sumK(text) == IF text = <<>> THEN 0 ELSE Head(text).k + sumK(Tail(text))

\* C14: the \k durations of every Dialogue line add up to the length of
\* the line, (End - Start) * 100, give or take one centisecond
C14_KaraokeSum ==
  KaraokeWritten =>
    \A c \in DOMAIN subtitle :
      LET shown == (assTime(subtitle[c].End) - assTime(subtitle[c].Start)) * 10
          sung  == sumK(subtitle[c].Text)
      IN sung - shown <= 1 /\ shown - sung <= 1

\* C15: every Dialogue line starts at or after the End of the line before
\* it, whatever the order of the words of the request
C15_CuesAscending ==
  KaraokeWritten =>
    \A c \in DOMAIN subtitle :
      c > 1 => assTime(subtitle[c].Start) >= assTime(subtitle[c - 1].End)

\* ------------------------------------------------------------------------
\* Plain captions
\* ------------------------------------------------------------------------

\* an SRT caption file has been written for the running request, with
\* origin locals.subOffset, from the words of the request
SrtWritten ==
  worker \in {"loose", "snap", "exact"} /\ pc = "rendering" /\ engine.subtitles

\* the block of word i of the request is in the caption file and starts at 0
KeptFromZero(i) ==
  \E b \in DOMAIN subtitle :
    subtitle[b].index = i /\ subtitle[b].from = << 0, 0, 0, 0 >>

\* C16: a word that starts before the origin of the captions and ends after
\* it has a block, which starts at 00:00:00,000
C16_PartialWordClamped ==
  SrtWritten =>
    \A i \in DOMAIN body.words :
      body.words[i].start < locals.subOffset /\ body.words[i].end > locals.subOffset
        => KeptFromZero(i)

\* ------------------------------------------------------------------------
\* Progress
\* ------------------------------------------------------------------------

\* a notification sent by the callback runFFmpeg was given
TranscodeNote(n) == n.status = "rendering" /\ n.message = "none"

\* the progress-reporting worker is transcoding
TrackedRendering == worker = "tracked" /\ pc = "rendering"

\* C17: every progress value the transcode stage sends lies in 55..95
C17_RenderRange ==
  worker = "tracked" =>
    \A i \in DOMAIN notified :
      TranscodeNote(notified[i]) => notified[i].progress \in 55..95

\* a clip whose duration is not positive has reported progress, after a
\* chunk whose marker is beyond the end of the clip
C17_Witness ==
  /\ TrackedRendering
  /\ engine.t <= 0
  /\ locals.timeMatch # <<>>
  /\ TranscodeNote(notified[Len(notified)])
  /\ notified[Len(notified)].progress = 95

\* two notifications of the transcode stage, one right after the other
Consecutive(i) ==
  i + 1 \in DOMAIN notified /\ TranscodeNote(notified[i]) /\ TranscodeNote(notified[i + 1])

\* C18 as stated: two consecutive progress values of the transcode stage
\* are at least 5 apart
C18_ThrottleAsStated ==
  worker = "tracked" =>
    \A i \in DOMAIN notified :
      Consecutive(i) => notified[i + 1].progress - notified[i].progress >= RenderThrottle

\* C18: two consecutive progress values of the transcode stage are at least
\* 2 apart, which is what more than 5 points of the stage's own percentage
\* come to on the global scale (40 global points for 100)
C18_ThrottleAmended ==
  worker = "tracked" =>
    \A i \in DOMAIN notified :
      Consecutive(i) => notified[i + 1].progress - notified[i].progress >= 2

\* the transcode stage has reported twice, the second time less than 5
\* global points after the first
C18_Witness ==
  /\ TrackedRendering
  /\ Len(notified) >= 2
  /\ Consecutive(Len(notified) - 1)
  /\ notified[Len(notified)].progress - notified[Len(notified) - 1].progress < RenderThrottle

\* C19: the time the stderr handler takes from a chunk is the last marker
\* of the chunk
C19_LastMarkerUsed ==
  TrackedRendering /\ locals.chunk # <<>> =>
    locals.timeMatch = << locals.chunk[Len(locals.chunk)] >>

\* ------------------------------------------------------------------------
\* Temporary files
\* ------------------------------------------------------------------------

\* C20: once the handler has returned, none of the temporary files of the
\* request is left, whichever way it returned and whether or not an unlink
\* failed
C20_NoTempFileLeft == pc = "responded" => files = {}

\* request r of the first worker is between its arrival and its reply
InFlight(r) == pc[r] \notin {"idle", "responded"}

\* C21: two requests in flight never use the same temporary path
C21_PathsDisjoint ==
  worker = "native" =>
    \A r1, r2 \in Requests :
      r1 # r2 /\ InFlight(r1) /\ InFlight(r2) =>
        {locals[r1].inputPath, locals[r1].outputPath}
          \cap {locals[r2].inputPath, locals[r2].outputPath} = {}

\* ------------------------------------------------------------------------
\* Stages of a request
\* ------------------------------------------------------------------------

\* one step of the progress-reporting handler keeps the order of the stages
StageStep ==
  /\ (pc' = "downloading" /\ pc # "downloading") => pc = "fetching"
  /\ (pc' = "rendering" /\ pc # "rendering") =>
       /\ pc = "downloading"
       /\ "input" \in files
       /\ engine = NoEngine
       /\ engine'.subtitles <=> "sub" \in files'
  /\ (pc = "rendering" /\ pc' = "rendering") => engine' = engine /\ files' = files
  /\ (pc' = "uploading" /\ pc # "uploading") => (pc = "rendering" /\ "output" \in files')
  /\ pc = "uploading" => pc' \in {"uploading", "responded"}
  /\ (error = "none" /\ error' # "none") => (pc' = "responded" /\ status' = 500)
  /\ pc = "responded" => pc' \in {"responded", "idle"}

\* C22: download, caption file, engine, upload happen in this order, each
\* at most once per request, and a failed stage ends the request
C22_StageOrder == [][worker = "tracked" => StageStep]_vars

\* a request with captions has gone through every stage up to the upload
C22_Witness ==
  /\ worker = "tracked"
  /\ pc = "uploading"
  /\ engine.subtitles
  /\ files = {"input", "sub", "output"}

\* ------------------------------------------------------------------------
\* Engine run
\* ------------------------------------------------------------------------

\* C23: a run settles at most once; it is a success exactly when the
\* process closed with code 0, a failure after any other close or a spawn
\* error; and a process that has exceeded the budget of 300 s has been
\* terminated
C23_EngineSettles ==
  /\ locals.settled <= 1
  /\ locals.outcome = "resolved" <=> (locals.process = "closed" /\ locals.code = "0")
  /\ (locals.errorEvent \/ (locals.process = "closed" /\ locals.code # "0"))
       => locals.outcome = "rejected"
  /\ locals.elapsed > TimeoutBudget => locals.process # "running"

\* ------------------------------------------------------------------------
\* Progress of a whole request
\* ------------------------------------------------------------------------

\* C24: the progress values a succeeding request has sent, in the order of
\* sending, never decrease
C24_ProgressMonotone ==
  (worker = "tracked" /\ status = 200) =>
    \A i \in DOMAIN notified :
      i + 1 \in DOMAIN notified => notified[i].progress <= notified[i + 1].progress

\* C25: every progress value the download stage sends lies in 50..55
C25_DownloadRange ==
  worker = "tracked" =>
    \A i \in DOMAIN notified :
      notified[i].status = "downloading" => notified[i].progress \in 50..55

\* the progress callbacks of the transcode stage so far
transcodeNotes == {i \in DOMAIN notified : TranscodeNote(notified[i])}

\* every callback has raised lastReport by more than 5 points, up to 100
callbacksBounded ==
  TrackedRendering =>
    /\ Cardinality(transcodeNotes) * RenderThrottle * Percent <= locals.lastReport
    /\ locals.lastReport <= 100 * Percent
    /\ Cardinality(transcodeNotes) <= 20

\* a chunk of stderr without a time marker changes nothing
unmarkedChunkSilent ==
  (TrackedRendering /\ pc' = "rendering" /\ locals'.timeMatch = <<>>) =>
    (notified' = notified /\ locals'.lastReport = locals.lastReport)

\* C26: a request gets at most 20 progress callbacks from the transcode
\* stage, each more than 5 points of the stage above the one before, and a
\* chunk with no time marker issues none and leaves lastReport as it was
C26_CallbacksBounded == [](callbacksBounded) /\ [][unmarkedChunkSilent]_vars

\* three callbacks have been issued and a chunk without marker has come
C26_Witness ==
  /\ TrackedRendering
  /\ Cardinality(transcodeNotes) = 3
  /\ locals.chunk = <<>>
  /\ locals.timeMatch = <<>>

\* ------------------------------------------------------------------------
\* Notifications
\* ------------------------------------------------------------------------

\* a notification that ends the job for the backend
Terminal(n) == n.status \in {"completed", "error"}

\* C27: the backend is sent one terminal notification per request, the last
\* of all the request sends; 'completed' comes with progress 100 after a
\* successful upload only
C27_OneTerminalLast ==
  worker = "tracked" =>
    /\ \A i \in DOMAIN notified : Terminal(notified[i]) => i = Len(notified)
    /\ pc = "responded" => \E i \in DOMAIN notified : Terminal(notified[i])
    /\ \A i \in DOMAIN notified :
         notified[i].status = "completed" =>
           /\ notified[i].progress = 100
           /\ i > 1 /\ notified[i - 1].status = "uploading"
           /\ pc = "responded" => status = 200

\* C28: the notifications of a request reach the backend in the order in
\* which they were issued
C28_ArriveInOrder ==
  worker = "tracked" =>
    \A i, j \in arrivedPosts : i < j => notified[i].arrived < notified[j].arrived

\* ------------------------------------------------------------------------
\* Caption origin
\* ------------------------------------------------------------------------

\* C29: in the safe-point, loose-cut and word-snap workers the time the
\* captions are counted from is the -ss cut start given to the engine
C29_OriginIsCutStart ==
  (worker \in Workers /\ pc = "rendering" /\ engine.subtitles) =>
    locals.subOffset = engine.ss

\* the word-snap worker renders captions for a cut that starts after 0
C29_Witness ==
  /\ worker = "snap"
  /\ pc = "rendering"
  /\ engine.subtitles
  /\ locals.snappedStart > 100
  /\ engine.ss = locals.snappedStart - 100

\* ------------------------------------------------------------------------
\* Audio extraction
\* ------------------------------------------------------------------------

\* request r is answered that its input has no audio stream
noAudioReply(r) == pc[r] = "probing" /\ pc'[r] = "responded" /\ error'[r] = "noaudio"

\* C30: an /extract-audio request whose input has no audio stream is
\* answered 400 straight after the probe, with no extraction and no upload
\* in between and no file written, and its input file is gone when the
\* handler returns unless the unlink itself threw
C30_NoAudioRejected ==
  [][worker = "native" =>
       \A r \in Requests :
         noAudioReply(r) =>
           /\ status'[r] = 400
           /\ files' \subseteq files
           /\ ~locals'[r].unlinkThrew => locals[r].inputPath \notin files']_vars

\* an /extract-audio request has been answered 400 and its input is gone
C30_Witness ==
  \E r \in Requests :
    /\ body[r].route = "extract-audio"
    /\ pc[r] = "responded"
    /\ status[r] = 400
    /\ error[r] = "noaudio"
    /\ ~locals[r].unlinkThrew
    /\ locals[r].inputPath \notin files

====
